---- MODULE Spec2Model ----
(***************************************************************************)
(* Model of the editing core of the bo text editor:                        *)
(*   - Document (src/src/document.rs): the row buffer and its edits,       *)
(*     save() and open();                                                  *)
(*   - Terminal (src/src/terminal.rs): set_cursor_position and             *)
(*     get_cursor_index_from_mouse_event.                                  *)
(* A Row is a sequence of one-character strings; a document is a sequence  *)
(* of rows.  Row itself (row.rs) is modelled from its contract.            *)
(***************************************************************************)
EXTENDS Integers, Sequences, FiniteSets, TLC

VARIABLES
    rows,       \* Document.rows: Vec<Row>
    filename,   \* Document.filename
    prev,       \* Document.rows before the last operation
    op,         \* the last operation and its arguments
    file,       \* the content of the file on disk, or NoFile
    saved,      \* the rows written by the last save() that returned Ok, or NoDoc
    size,       \* Terminal.size: [height, width]
    overflow_checks, \* whether the build checks integer overflow (debug) or wraps (release)
    position,   \* the Position last given to set_cursor_position
    goto,       \* what set_cursor_position did: the Goto it printed, or a panic
    mouse,      \* the last mouse event and the x_offset given with it
    click,      \* the Position get_cursor_index_from_mouse_event returned
    before,     \* of two edits in a row: Document.rows before the first, or NoDoc
    first       \* of two edits in a row: the first and its arguments

pairVars == <<before, first>>
docVars == <<rows, filename, prev, op, file, saved, before, first>>
termVars == <<size, overflow_checks, position, goto, mouse, click>>
vars == <<rows, filename, prev, op, file, saved,
          size, overflow_checks, position, goto, mouse, click, before, first>>

----------------------------------------------------------------------------
(* Bounds of the model *)

\* largest number of characters held by a document, all rows together
MaxChars == 3
\* largest number of rows of a document
MaxRows == 3

\* the characters typed into a document
Chars == {"a", "b"}
\* column arguments: inside a row, at its end and past its end
XArgs == 0..MaxChars
\* row arguments: existing rows, y = num_rows() and y > num_rows()
YArgs == 0..MaxRows

\* the characters of the edit scenario: document "ab", typed 'c', document "x"
TraceChars == {"c"}
TraceDocs == {<< <<"a", "b">> >>, << <<"x">> >>}

LF == "\n"
CR == "\r"
\* the characters of saved and loaded documents
FileChars == {"a", "b", "c", CR, LF}

NoFile == <<"no file">>
NoDoc == <<"no document">>

----------------------------------------------------------------------------
(* Sequence helpers (Vec<T>::remove, Vec<T>::insert, Vec<T>::push) *)

Min(a, b) == IF a <= b THEN a ELSE b

\* Vec::remove(i), i 0-based and i < len
VecRemove(s, i) == SubSeq(s, 1, i) \o SubSeq(s, i + 2, Len(s))
\* Vec::insert(i, e), i 0-based and i <= len
VecInsert(s, i, e) == SubSeq(s, 1, i) \o <<e>> \o SubSeq(s, i + 1, Len(s))
\* Vec::push(e)
VecPush(s, e) == Append(s, e)

\* usize::saturating_sub
SatSub(a, b) == IF a >= b THEN a - b ELSE 0

----------------------------------------------------------------------------
(* The Row contract *)

RowDefault == <<>>
RowFrom(s) == s
RowLen(r) == Len(r)
RowAsBytes(r) == r
\* Row::insert(at, c): beyond the end the character is appended
RowInsert(r, at, c) == VecInsert(r, Min(at, Len(r)), c)
\* Row::delete(at): nothing to delete beyond the end
RowDelete(r, at) == IF at < Len(r) THEN VecRemove(r, at) ELSE r
\* Row::split(at): self keeps the first at characters, the tail is returned
RowSplitHead(r, at) == SubSeq(r, 1, Min(at, Len(r)))
RowSplitTail(r, at) == SubSeq(r, Min(at, Len(r)) + 1, Len(r))
\* Row::append(other)
RowAppend(r, other) == r \o other

----------------------------------------------------------------------------
(* Document queries *)

num_rows(rs) == Len(rs)
is_empty(rs) == Len(rs) = 0
\* Vec::get(index): Some(row) exactly when index < len
HasRow(rs, index) == index < Len(rs)
get_row(rs, index) == rs[index + 1]

RECURSIVE SumLen(_)
SumLen(rs) == IF rs = <<>> THEN 0 ELSE Len(Head(rs)) + SumLen(Tail(rs))
\* the number of characters of the whole buffer
TotalChars(rs) == SumLen(rs)

----------------------------------------------------------------------------
(* Document edits, each the value of self.rows after the call *)

\* a mutant of insert: the new row is put in front instead of pushed
insert_front(rs, c, x, y) ==
    IF y >= num_rows(rs)
    THEN VecInsert(rs, 0, RowInsert(RowDefault, 0, c))
    ELSE [rs EXCEPT ![y + 1] = RowInsert(@, x, c)]

insert(rs, c, x, y) ==
    IF y >= num_rows(rs)
    THEN VecPush(rs, RowInsert(RowDefault, 0, c))
    ELSE IF HasRow(rs, y)
         THEN [rs EXCEPT ![y + 1] = RowInsert(@, x, c)]
         ELSE rs

\* a mutant of delete: the character at x is deleted, not the one before it
delete_atX(rs, x, y) ==
    IF y >= num_rows(rs) THEN rs
    ELSE IF x = 0 /\ y > 0
         THEN LET current_row == get_row(rs, y)
                  removed == VecRemove(rs, y)
              IN  [removed EXCEPT ![y] = RowAppend(@, current_row)]
         ELSE [rs EXCEPT ![y + 1] = RowDelete(@, x)]

\* a mutant of delete: the guard y > 0 of the merge is lost; row 0 is then
\* removed and there is no previous row to append it to
delete_noYGuard(rs, x, y) ==
    IF y >= num_rows(rs) THEN rs
    ELSE IF x = 0
         THEN LET current_row == get_row(rs, y)
                  removed == VecRemove(rs, y)
              IN  IF y > 0 /\ HasRow(removed, y - 1)
                  THEN [removed EXCEPT ![y] = RowAppend(@, current_row)]
                  ELSE removed
         ELSE [rs EXCEPT ![y + 1] = RowDelete(@, SatSub(x, 1))]

\* a mutant of delete: the merge appends the previous row to the current one
delete_swapped(rs, x, y) ==
    IF y >= num_rows(rs) THEN rs
    ELSE IF x = 0 /\ y > 0
         THEN LET current_row == get_row(rs, y)
                  removed == VecRemove(rs, y)
              IN  [removed EXCEPT ![y] = RowAppend(current_row, @)]
         ELSE [rs EXCEPT ![y + 1] = RowDelete(@, SatSub(x, 1))]

delete(rs, x, y) ==
    IF y >= num_rows(rs) THEN rs
    ELSE IF x = 0 /\ y > 0
         THEN LET current_row == get_row(rs, y)
                  removed == VecRemove(rs, y)
              IN  IF HasRow(removed, y - 1)
                  THEN [removed EXCEPT ![y] = RowAppend(@, current_row)]
                  ELSE removed
         ELSE IF HasRow(rs, y)
              THEN [rs EXCEPT ![y + 1] = RowDelete(@, SatSub(x, 1))]
              ELSE rs

\* a mutant of insert_newline: with y = num_rows() an empty row is pushed
insert_newline_atEnd(rs, x, y) ==
    IF y > num_rows(rs) THEN rs
    ELSE IF HasRow(rs, y)
         THEN LET current_row == get_row(rs, y)
              IN  IF x < SatSub(RowLen(current_row), 1)
                  THEN VecInsert([rs EXCEPT ![y + 1] = RowSplitHead(current_row, x)],
                                 y + 1, RowSplitTail(current_row, x))
                  ELSE VecInsert(rs, y + 1, RowDefault)
         ELSE VecPush(rs, RowDefault)

\* a mutant of insert_newline: the empty row is always pushed at the end
insert_newline_push(rs, x, y) ==
    IF y > num_rows(rs) THEN rs
    ELSE IF HasRow(rs, y)
         THEN LET current_row == get_row(rs, y)
              IN  IF x < SatSub(RowLen(current_row), 1)
                  THEN VecInsert([rs EXCEPT ![y + 1] = RowSplitHead(current_row, x)],
                                 y + 1, RowSplitTail(current_row, x))
                  ELSE VecPush(rs, RowDefault)
         ELSE rs

\* a mutant of insert_newline: the tail is inserted before the head
insert_newline_before(rs, x, y) ==
    IF y > num_rows(rs) THEN rs
    ELSE IF HasRow(rs, y)
         THEN LET current_row == get_row(rs, y)
              IN  IF x < SatSub(RowLen(current_row), 1)
                  THEN VecInsert([rs EXCEPT ![y + 1] = RowSplitHead(current_row, x)],
                                 y, RowSplitTail(current_row, x))
                  ELSE VecInsert(rs, y + 1, RowDefault)
         ELSE rs

insert_newline(rs, x, y) ==
    IF y > num_rows(rs) THEN rs
    ELSE IF HasRow(rs, y)
         THEN LET current_row == get_row(rs, y)
              IN  IF x < SatSub(RowLen(current_row), 1)
                  THEN VecInsert([rs EXCEPT ![y + 1] = RowSplitHead(current_row, x)],
                                 y + 1, RowSplitTail(current_row, x))
                  ELSE IF y = num_rows(rs) \/ y + 1 = num_rows(rs)
                       THEN VecPush(rs, RowDefault)
                       ELSE VecInsert(rs, y + 1, RowDefault)
         ELSE rs

\* a mutant of delete_row: the single-row case removes the row
delete_row_noClear(rs, aty) ==
    IF aty > num_rows(rs) THEN rs
    ELSE IF HasRow(rs, aty) THEN VecRemove(rs, aty)
    ELSE rs

delete_row(rs, aty) ==
    IF aty > num_rows(rs) THEN rs
    ELSE IF num_rows(rs) = 1
         THEN IF HasRow(rs, 0) THEN [rs EXCEPT ![1] = <<>>] ELSE rs
    ELSE IF HasRow(rs, aty) THEN VecRemove(rs, aty)
    ELSE rs

----------------------------------------------------------------------------
(* Files: Document::save and Document::open *)

RECURSIVE Concat(_)
\* the bytes save() writes: each row followed by a line feed
Concat(rs) == IF rs = <<>> THEN <<>> ELSE RowAsBytes(Head(rs)) \o <<LF>> \o Concat(Tail(rs))

\* a mutant of save_bytes: the line feed after the last row is not written
save_bytes_noLastLF(rs) ==
    IF rs = <<>> THEN <<>> ELSE SubSeq(Concat(rs), 1, Len(Concat(rs)) - 1)

save_bytes(rs) == Concat(rs)

\* str::lines() removes the line feed that ends a line and then one carriage
\* return before it
StripCR(line) ==
    IF line /= <<>> /\ line[Len(line)] = CR THEN SubSeq(line, 1, Len(line) - 1) ELSE line

RECURSIVE LinesFrom(_, _)
\* str::lines(): rest is what remains to be read, cur the line being read;
\* a last line with no line feed is a line when it is not empty
LinesFrom(rest, cur) ==
    IF rest = <<>> THEN (IF cur = <<>> THEN <<>> ELSE <<cur>>)
    ELSE IF Head(rest) = LF
         THEN <<StripCR(cur)>> \o LinesFrom(Tail(rest), <<>>)
         ELSE LinesFrom(Tail(rest), Append(cur, Head(rest)))

lines(contents) == LinesFrom(contents, <<>>)

RECURSIVE RowsFrom(_)
RowsFrom(ls) == IF ls = <<>> THEN <<>> ELSE <<RowFrom(Head(ls))>> \o RowsFrom(Tail(ls))

\* the rows of the document open() builds from the file's contents
open_rows(contents) == RowsFrom(lines(contents))

----------------------------------------------------------------------------
(* Terminal: the coordinate transforms *)

\* u8, u16 and usize; UsizeMax stands for usize::MAX
U8Max == 255
U16Max == 65535
UsizeMax == 2147483647

\* largest small coordinate, offset and reported terminal size of the inputs
MaxCoord == 2
MaxOff == 2
MaxTerm == 5

CoordArgs == (0..MaxCoord) \cup {U16Max, UsizeMax}
OffArgs == (0..MaxOff) \cup {U8Max - 1, U8Max}
Reported == (0..MaxTerm) \cup {U16Max}
MouseCoords == (0..MaxTerm) \cup {U16Max}
MouseKinds == {"press", "release", "hold"}

\* usize::saturating_add
SatAdd(a, b) == IF a > UsizeMax - b THEN UsizeMax ELSE a + b
\* u8::saturating_add
SatAddU8(a, b) == IF a > U8Max - b THEN U8Max ELSE a + b
\* `as u16`
AsU16(v) == v % (U16Max + 1)

Panic == [kind |-> "panic", x |-> 0, y |-> 0]
NoGoto == [kind |-> "none", x |-> 0, y |-> 0]
Goto(x, y) == [kind |-> "goto", x |-> x, y |-> y]

\* Position::top_left()
top_left == [x |-> 0, y |-> 0, x_offset |-> 0]
NoMouse == [kind |-> "none", x |-> 0, y |-> 0, x_offset |-> 0]

\* Terminal::default(): the size kept for a reported (width, height)
default_size(w, h) == [height |-> SatSub(h, 2), width |-> w]

\* a mutant of set_cursor_position: the column and the row stay 0-based
set_cursor_position_zeroBased(p, sz, checks) ==
    LET sum == p.x_offset + (IF p.x_offset > 0 THEN 1 ELSE 0)
        x_offset == sum % (U8Max + 1)
    IN  IF sum > U8Max /\ checks THEN Panic
        ELSE Goto(AsU16(Min(SatAdd(p.x, x_offset), sz.width)),
                  AsU16(Min(p.y, sz.height)))

\* what set_cursor_position prints: x_offset += 1 is a u8 addition, which
\* panics in a build with overflow checks and wraps in one without
set_cursor_position(p, sz, checks) ==
    LET sum == p.x_offset + (IF p.x_offset > 0 THEN 1 ELSE 0)
        x_offset == sum % (U8Max + 1)
        x1 == SatAdd(p.x, 1)
        x2 == Min(SatAdd(x1, x_offset), sz.width)
        y1 == SatAdd(p.y, 1)
        y2 == Min(y1, sz.height)
    IN  IF sum > U8Max /\ checks THEN Panic
        ELSE Goto(AsU16(x2), AsU16(y2))

\* a mutant of get_cursor_index_from_mouse_event: the offset is not carried
\* into the result of a press
get_cursor_index_dropOffset(ev, x_offset) ==
    IF ev.kind = "press"
    THEN LET offset_adjustment == IF x_offset > 0 THEN SatAddU8(x_offset, 1) ELSE 0
         IN  [x |-> SatSub(SatSub(ev.x, 1), offset_adjustment),
              y |-> SatSub(ev.y, 1),
              x_offset |-> 0]
    ELSE top_left

get_cursor_index_from_mouse_event(ev, x_offset) ==
    IF ev.kind = "press"
    THEN LET offset_adjustment == IF x_offset > 0 THEN SatAddU8(x_offset, 1) ELSE 0
         IN  [x |-> SatSub(SatSub(ev.x, 1), offset_adjustment),
              y |-> SatSub(ev.y, 1),
              x_offset |-> x_offset]
    ELSE top_left

----------------------------------------------------------------------------
(* Initial states *)

NoOp == [name |-> "new", c |-> "", x |-> 0, y |-> 0, ok |-> TRUE]

RECURSIVE SeqsUpTo(_, _)
\* the sequences over S of length at most n
SeqsUpTo(S, n) ==
    IF n = 0 THEN {<<>>}
    ELSE LET shorter == SeqsUpTo(S, n - 1)
         IN  shorter \cup {Append(s, e) : s \in {t \in shorter : Len(t) = n - 1}, e \in S}

RECURSIVE DocsWithin(_, _, _)
\* the documents over the characters CS of at most r rows and k characters
DocsWithin(CS, r, k) ==
    IF r = 0 THEN {<<>>}
    ELSE {<<>>} \cup
         UNION {{<<row>> \o d : d \in DocsWithin(CS, r - 1, k - Len(row))} :
                row \in SeqsUpTo(CS, k)}

\* the documents over the characters CS within the bounds
Docs(CS) == DocsWithin(CS, MaxRows, MaxChars)

DocIdle ==
    /\ filename = "f"
    /\ prev = rows
    /\ op = NoOp
    /\ before = NoDoc
    /\ first = NoOp
    /\ file = NoFile
    /\ saved = NoDoc

TermIdle ==
    /\ size = default_size(U16Max, U16Max)
    /\ overflow_checks = FALSE
    /\ position = top_left
    /\ goto = NoGoto
    /\ mouse = NoMouse
    /\ click = top_left

\* Document::default() / new_empty(): one empty row; open() of an empty
\* file and new(vec![], ..): no row
Init ==
    /\ rows \in {<<>>, <<RowFrom(<<>>)>>}
    /\ DocIdle
    /\ TermIdle

\* Document::new(rows, ..) with the documents of the edit scenario
TraceInit ==
    /\ rows \in TraceDocs
    /\ DocIdle
    /\ TermIdle

\* Document::new(rows, filename), the file not yet written
FileInit ==
    /\ rows \in Docs(FileChars)
    /\ filename \in {"", "f"}
    /\ prev = rows
    /\ op = NoOp
    /\ file = NoFile
    /\ saved = NoDoc
    /\ before = NoDoc
    /\ first = NoOp
    /\ TermIdle

\* Terminal::default() for a reported terminal size, in either build
TermInit ==
    /\ rows = <<RowFrom(<<>>)>>
    /\ DocIdle
    /\ \E w \in Reported, h \in Reported : size = default_size(w, h)
    /\ overflow_checks \in BOOLEAN
    /\ position = top_left
    /\ goto = NoGoto
    /\ mouse = NoMouse
    /\ click = top_left

----------------------------------------------------------------------------
(* Actions: the edits *)

InsertOf(CS) ==
    \E c \in CS, x \in XArgs, y \in YArgs :
        /\ TotalChars(rows) < MaxChars
        /\ y >= num_rows(rows) => num_rows(rows) < MaxRows
        /\ rows' = insert(rows, c, x, y)
        /\ prev' = rows
        /\ op' = [name |-> "insert", c |-> c, x |-> x, y |-> y, ok |-> TRUE]
        /\ UNCHANGED <<filename, file, saved>>
        /\ UNCHANGED termVars
        /\ UNCHANGED pairVars

Insert == InsertOf(Chars)

TraceInsert == InsertOf(TraceChars)

Delete ==
    \E x \in XArgs, y \in YArgs :
        /\ rows' = delete(rows, x, y)
        /\ prev' = rows
        /\ op' = [name |-> "delete", c |-> "", x |-> x, y |-> y, ok |-> TRUE]
        /\ UNCHANGED <<filename, file, saved>>
        /\ UNCHANGED termVars
        /\ UNCHANGED pairVars

InsertNewline ==
    \E x \in XArgs, y \in YArgs :
        /\ num_rows(rows) < MaxRows
        /\ rows' = insert_newline(rows, x, y)
        /\ prev' = rows
        /\ op' = [name |-> "insert_newline", c |-> "", x |-> x, y |-> y, ok |-> TRUE]
        /\ UNCHANGED <<filename, file, saved>>
        /\ UNCHANGED termVars
        /\ UNCHANGED pairVars

DeleteRow ==
    \E y \in YArgs :
        /\ rows' = delete_row(rows, y)
        /\ prev' = rows
        /\ op' = [name |-> "delete_row", c |-> "", x |-> 0, y |-> y, ok |-> TRUE]
        /\ UNCHANGED <<filename, file, saved>>
        /\ UNCHANGED termVars
        /\ UNCHANGED pairVars

----------------------------------------------------------------------------
(* Actions: save and open *)

\* save() returns Ok: with a filename the file holds every row and its line
\* feed, with none nothing is written
Save ==
    /\ file' = IF filename /= "" THEN save_bytes(rows) ELSE file
    /\ saved' = IF filename /= "" THEN rows ELSE saved
    /\ prev' = rows
    /\ op' = [name |-> "save", c |-> "", x |-> 0, y |-> 0, ok |-> TRUE]
    /\ UNCHANGED <<rows, filename>>
    /\ UNCHANGED termVars
    /\ UNCHANGED pairVars

\* save() returns Err: File::create failed (the file is as it was), or a
\* write failed after k writes of the 2 * num_rows went through
SaveFails ==
    /\ filename /= ""
    /\ \/ file' = file /\ saved' = saved
       \/ \E k \in 0..(2 * num_rows(rows) - 1) :
            /\ file' = IF k % 2 = 0
                       THEN save_bytes(SubSeq(rows, 1, k \div 2))
                       ELSE save_bytes(SubSeq(rows, 1, k \div 2)) \o RowAsBytes(rows[k \div 2 + 1])
            /\ saved' = NoDoc
    /\ prev' = rows
    /\ op' = [name |-> "save", c |-> "", x |-> 0, y |-> 0, ok |-> FALSE]
    /\ UNCHANGED <<rows, filename>>
    /\ UNCHANGED termVars
    /\ UNCHANGED pairVars

\* open("f") returns Ok(document)
Open ==
    /\ file /= NoFile
    /\ rows' = open_rows(file)
    /\ filename' = "f"
    /\ prev' = rows
    /\ op' = [name |-> "open", c |-> "", x |-> 0, y |-> 0, ok |-> TRUE]
    /\ UNCHANGED <<file, saved>>
    /\ UNCHANGED termVars
    /\ UNCHANGED pairVars

\* open("f") returns Err: there is no file, or it cannot be read
OpenFails ==
    /\ prev' = rows
    /\ op' = [name |-> "open", c |-> "", x |-> 0, y |-> 0, ok |-> FALSE]
    /\ UNCHANGED <<rows, filename, file, saved>>
    /\ UNCHANGED termVars
    /\ UNCHANGED pairVars

----------------------------------------------------------------------------
(* Actions: two edits in a row, an insertion and the delete after it *)

\* Document::new(rows, ..) with any document within the bounds
PairInit ==
    /\ rows \in Docs(Chars)
    /\ DocIdle
    /\ TermIdle

FirstInsert ==
    \E c \in Chars, x \in XArgs, y \in YArgs :
        /\ first = NoOp
        /\ TotalChars(rows) < MaxChars
        /\ y >= num_rows(rows) => num_rows(rows) < MaxRows
        /\ rows' = insert(rows, c, x, y)
        /\ prev' = rows
        /\ before' = rows
        /\ op' = [name |-> "insert", c |-> c, x |-> x, y |-> y, ok |-> TRUE]
        /\ first' = op'
        /\ UNCHANGED <<filename, file, saved>>
        /\ UNCHANGED termVars

FirstInsertNewline ==
    \E x \in XArgs, y \in YArgs :
        /\ first = NoOp
        /\ num_rows(rows) < MaxRows
        /\ rows' = insert_newline(rows, x, y)
        /\ prev' = rows
        /\ before' = rows
        /\ op' = [name |-> "insert_newline", c |-> "", x |-> x, y |-> y, ok |-> TRUE]
        /\ first' = op'
        /\ UNCHANGED <<filename, file, saved>>
        /\ UNCHANGED termVars

SecondDelete ==
    \E x \in XArgs, y \in YArgs :
        /\ first /= NoOp
        /\ op = first
        /\ rows' = delete(rows, x, y)
        /\ prev' = rows
        /\ op' = [name |-> "delete", c |-> "", x |-> x, y |-> y, ok |-> TRUE]
        /\ UNCHANGED <<filename, file, saved>>
        /\ UNCHANGED pairVars
        /\ UNCHANGED termVars

----------------------------------------------------------------------------
(* Actions: the terminal *)

\* the transforms read their arguments and the size only, so each behaviour
\* follows one call from the state in which nothing was called yet
Idle == goto = NoGoto /\ mouse = NoMouse

SetCursorPosition ==
    \E x \in CoordArgs, y \in CoordArgs, o \in OffArgs :
        /\ Idle
        /\ position' = [x |-> x, y |-> y, x_offset |-> o]
        /\ goto' = set_cursor_position(position', size, overflow_checks)
        /\ mouse' = NoMouse
        /\ click' = top_left
        /\ UNCHANGED <<size, overflow_checks>>
        /\ UNCHANGED docVars

\* a mouse press on the cell the cursor was put on, with the position's offset
PressAtCursor ==
    /\ goto.kind = "goto"
    /\ mouse = NoMouse
    /\ mouse' = [kind |-> "press", x |-> goto.x, y |-> goto.y, x_offset |-> position.x_offset]
    /\ click' = get_cursor_index_from_mouse_event(mouse', position.x_offset)
    /\ UNCHANGED <<size, overflow_checks, position, goto>>
    /\ UNCHANGED docVars

\* any mouse event, with any offset
MouseEvent ==
    \E k \in MouseKinds, x \in MouseCoords, y \in MouseCoords, o \in OffArgs :
        /\ Idle
        /\ mouse' = [kind |-> k, x |-> x, y |-> y, x_offset |-> o]
        /\ click' = get_cursor_index_from_mouse_event(mouse', o)
        /\ position' = top_left
        /\ goto' = NoGoto
        /\ UNCHANGED <<size, overflow_checks>>
        /\ UNCHANGED docVars

----------------------------------------------------------------------------
(* Specifications *)

Next == Insert \/ Delete \/ InsertNewline \/ DeleteRow

\* editing a document
Spec == Init /\ [][Next]_vars

TraceNext == TraceInsert \/ Delete \/ InsertNewline \/ DeleteRow

\* editing the documents of the edit scenario
TraceSpec == TraceInit /\ [][TraceNext]_vars

FileNext == Save \/ SaveFails \/ Open \/ OpenFails

\* saving and loading a document
FileSpec == FileInit /\ [][FileNext]_vars

PairNext == FirstInsert \/ FirstInsertNewline \/ SecondDelete

\* an insertion and the delete after it, from any document
PairSpec == PairInit /\ [][PairNext]_vars

TermNext == SetCursorPosition \/ PressAtCursor \/ MouseEvent

\* placing the cursor and translating mouse events
TermSpec == TermInit /\ [][TermNext]_vars

----------------------------------------------------------------------------
(* Properties *)

Edits == {"insert", "delete", "insert_newline", "delete_row"}
\* 1-based index of the row the last operation addressed
Y1 == op.y + 1

\* C1: an edit of a document that has at least one row leaves it with at
\* least one row, so a buffer that starts non-empty never has zero rows.
C1_NeverZeroRows ==
    (op.name \in Edits /\ num_rows(prev) >= 1) => num_rows(rows) >= 1

\* C1 witness: delete_row on a document whose only row holds text clears it.
C1_Witness ==
    /\ op.name = "delete_row"
    /\ num_rows(prev) = 1
    /\ prev[1] /= <<>>
    /\ rows = << <<>> >>

\* C3: delete(0, y) with 0 < y < num_rows joins row y to the end of row
\* y - 1: one row fewer, rows before y - 1 unchanged, rows after y moved up
\* by one, and the same number of characters in the buffer.
C3_Merge ==
    (op.name = "delete" /\ op.x = 0 /\ 0 < op.y /\ op.y < num_rows(prev)) =>
        /\ num_rows(rows) = num_rows(prev) - 1
        /\ rows[op.y] = prev[op.y] \o prev[Y1]
        /\ \A i \in 1..(op.y - 1) : rows[i] = prev[i]
        /\ \A i \in Y1..num_rows(rows) : rows[i] = prev[i + 1]
        /\ TotalChars(rows) = TotalChars(prev)

\* C3 witness: a merge of two rows with different text, with a row after
\* them that moves up.
C3_Witness ==
    /\ op.name = "delete" /\ op.x = 0 /\ op.y = 1
    /\ num_rows(prev) = 3
    /\ prev[1] /= <<>> /\ prev[2] /= <<>> /\ prev[1] /= prev[2]
    /\ prev[3] /= <<>>
    /\ rows = <<prev[1] \o prev[2], prev[3]>>

\* C4: insert_newline(x, y) with y < num_rows and x < len(row y) - 1 splits
\* row y: one row more, row y keeps its first x characters, row y + 1 holds
\* the rest, the two together are the original row, the other rows keep
\* their content and those after y move down by one.
C4_Split ==
    (/\ op.name = "insert_newline"
     /\ op.y < num_rows(prev)
     /\ op.x < SatSub(Len(prev[Y1]), 1)) =>
        /\ num_rows(rows) = num_rows(prev) + 1
        /\ rows[Y1] = SubSeq(prev[Y1], 1, op.x)
        /\ rows[Y1 + 1] = SubSeq(prev[Y1], op.x + 1, Len(prev[Y1]))
        /\ rows[Y1] \o rows[Y1 + 1] = prev[Y1]
        /\ \A i \in 1..op.y : rows[i] = prev[i]
        /\ \A i \in (Y1 + 1)..num_rows(prev) : rows[i + 1] = prev[i]
        /\ TotalChars(rows) = TotalChars(prev)

\* C4 witness: a row of three characters split after its first, with a row
\* after it.
C4_Witness ==
    /\ op.name = "insert_newline" /\ op.x = 1 /\ op.y = 0
    /\ num_rows(prev) = 2
    /\ Len(prev[1]) = 3
    /\ num_rows(rows) = 3
    /\ Len(rows[1]) = 1 /\ Len(rows[2]) = 2

\* C5: the edit scenario: insert('c', 0, 0) on ["ab"] gives ["cab"];
\* insert_newline(1, 0) on that gives ["c", "ab"]; delete(0, 1) on that
\* gives ["cab"]; delete_row at y = 0 on ["x"] gives [""].
C5_Scenario ==
    /\ (prev = << <<"a", "b">> >>
        /\ op = [name |-> "insert", c |-> "c", x |-> 0, y |-> 0, ok |-> TRUE])
            => rows = << <<"c", "a", "b">> >>
    /\ (prev = << <<"c", "a", "b">> >>
        /\ op = [name |-> "insert_newline", c |-> "", x |-> 1, y |-> 0, ok |-> TRUE])
            => rows = << <<"c">>, <<"a", "b">> >>
    /\ (prev = << <<"c">>, <<"a", "b">> >>
        /\ op = [name |-> "delete", c |-> "", x |-> 0, y |-> 1, ok |-> TRUE])
            => rows = << <<"c", "a", "b">> >>
    /\ (prev = << <<"x">> >>
        /\ op = [name |-> "delete_row", c |-> "", x |-> 0, y |-> 0, ok |-> TRUE])
            => rows = << <<>> >>

\* C5 witness: the last step of the chain, the merge back to ["cab"].
C5_Witness ==
    /\ prev = << <<"c">>, <<"a", "b">> >>
    /\ op = [name |-> "delete", c |-> "", x |-> 0, y |-> 1, ok |-> TRUE]
    /\ rows = << <<"c", "a", "b">> >>

NoLF(rs) == \A i \in 1..Len(rs) : \A j \in 1..Len(rs[i]) : rs[i][j] /= LF
NoFinalCR(rs) == \A i \in 1..Len(rs) : rs[i] = <<>> \/ rs[i][Len(rs[i])] /= CR
\* open() returned the document read from what the last save() wrote
Reloaded == op.name = "open" /\ op.ok /\ saved /= NoDoc

\* C6 as claimed: a saved document of at least one row whose rows hold no
\* line feed is reloaded with exactly the saved rows.
C6_RoundTrip_Claimed ==
    (Reloaded /\ num_rows(saved) >= 1 /\ NoLF(saved)) => rows = saved

\* C6 amended: a saved document of at least one row whose rows hold no line
\* feed and do not end with a carriage return is reloaded with exactly the
\* saved rows.
C6_RoundTrip ==
    (Reloaded /\ num_rows(saved) >= 1 /\ NoLF(saved) /\ NoFinalCR(saved)) => rows = saved

\* C6 witness: ["a", "", "bc"] saved and reloaded.
C6_Witness ==
    /\ Reloaded
    /\ saved = << <<"a">>, <<>>, <<"b", "c">> >>
    /\ rows = saved
    /\ file = <<"a", LF, LF, "b", "c", LF>>

\* C7: delete(0, 0) on the document of one empty row leaves the document
\* of one empty row, the state it started from.
C7_DeleteOnEmpty ==
    (op.name = "delete" /\ op.x = 0 /\ op.y = 0 /\ prev = << <<>> >>) => rows = << <<>> >>

\* C7 witness: delete(0, 0) was called on the document of one empty row.
C7_Witness ==
    op.name = "delete" /\ op.x = 0 /\ op.y = 0 /\ prev = << <<>> >> /\ rows = prev

\* C8: insert(c, x, y) with y >= num_rows adds one row at the end that holds
\* c only, whatever x is, and leaves the rows there were in place.
C8_InsertGrows ==
    (op.name = "insert" /\ op.y >= num_rows(prev)) =>
        /\ num_rows(rows) = num_rows(prev) + 1
        /\ rows[num_rows(rows)] = <<op.c>>
        /\ \A i \in 1..num_rows(prev) : rows[i] = prev[i]

\* C8 witness: an insert below the end of the buffer, at a column other than 0.
C8_Witness ==
    /\ op.name = "insert" /\ op.y > num_rows(prev) /\ op.x > 1
    /\ num_rows(prev) = 2 /\ prev[1] /= <<>> /\ prev[2] /= <<>>
    /\ num_rows(rows) = 3

\* C9: delete_row at y = 0 on a document of one row leaves one empty row;
\* on a document of two rows or more, with y < num_rows, it removes row y:
\* one row fewer, rows before y unchanged, rows after y moved up by one.
C9_DeleteRow ==
    op.name = "delete_row" =>
        /\ (num_rows(prev) = 1 /\ op.y = 0) => rows = << <<>> >>
        /\ (num_rows(prev) >= 2 /\ op.y < num_rows(prev)) =>
            /\ num_rows(rows) = num_rows(prev) - 1
            /\ \A i \in 1..op.y : rows[i] = prev[i]
            /\ \A i \in Y1..num_rows(rows) : rows[i] = prev[i + 1]

\* C9 witness: the middle row of three different rows is removed.
C9_Witness ==
    /\ op.name = "delete_row" /\ op.y = 1
    /\ num_rows(prev) = 3
    /\ prev[1] /= prev[2] /\ prev[2] /= prev[3] /\ prev[1] /= prev[3]
    /\ rows = <<prev[1], prev[3]>>

\* the offset adjustment as the specification states it
Adj(o) == IF o > 0 THEN o + 1 ELSE 0
\* min(a + k, w) for w a u16, computed without leaving the integers held
ClampedSum(a, k, w) == IF a > w - k THEN w ELSE a + k
\* the terminal is large enough for the position: nothing is clamped
NoClamp(p, sz) == p.x <= sz.width - 1 - Adj(p.x_offset) /\ p.y <= sz.height - 1

\* C2 as claimed: a press on the cell set_cursor_position put the cursor on,
\* given the position's x_offset, is translated back to the position, when
\* the terminal is large enough that nothing is clamped.
C2_RoundTrip_Claimed ==
    (goto.kind = "goto" /\ mouse.kind = "press" /\ NoClamp(position, size)) =>
        click = position

\* C10 as claimed: set_cursor_position puts the cursor at
\* (min(x + 1 + adj, width), min(y + 1, height)), adj = x_offset + 1 when
\* x_offset > 0 and 0 otherwise.
C10_ForwardValue_Claimed ==
    goto.kind /= "none" =>
        goto = Goto(ClampedSum(position.x, 1 + Adj(position.x_offset), size.width),
                    ClampedSum(position.y, 1, size.height))

\* a mouse event was translated
Translated == mouse.kind /= "none"

\* C11 as claimed: a press at (px, py) with x_offset is translated to
\* {max(px - 1 - adj, 0), max(py - 1, 0), x_offset}, adj = x_offset + 1 when
\* x_offset > 0 and 0 otherwise; any other event to {0, 0, 0}.
C11_InverseValue_Claimed ==
    Translated =>
        click = IF mouse.kind = "press"
                THEN [x |-> SatSub(mouse.x, 1 + Adj(mouse.x_offset)),
                      y |-> SatSub(mouse.y, 1),
                      x_offset |-> mouse.x_offset]
                ELSE [x |-> 0, y |-> 0, x_offset |-> 0]

\* C11 amended: the same with adj = min(x_offset + 1, 255) when x_offset > 0:
\* the adjustment is a u8 and saturates.
C11_InverseValue ==
    Translated =>
        click = IF mouse.kind = "press"
                THEN [x |-> SatSub(mouse.x, 1 + Min(Adj(mouse.x_offset), U8Max)),
                      y |-> SatSub(mouse.y, 1),
                      x_offset |-> mouse.x_offset]
                ELSE [x |-> 0, y |-> 0, x_offset |-> 0]

\* C11 witness: a press right of the gutter with the largest offset, where
\* the adjustment saturates at 255.
C11_Witness ==
    /\ mouse.kind = "press" /\ mouse.x_offset = U8Max /\ mouse.x = U16Max /\ mouse.y > 1
    /\ click = [x |-> U16Max - 1 - U8Max, y |-> mouse.y - 1, x_offset |-> U8Max]

\* set_cursor_position was called
Placed == goto.kind /= "none"

\* C13 as claimed: no step of set_cursor_position overflows, wraps or
\* fails: the call prints a cursor placement, and it is the one computed
\* with the offset adjustment, x + 1, x + 1 + adjustment and y + 1 each
\* exact or saturated.
C13_Saturates_Claimed ==
    Placed =>
        LET adjusted == IF position.x_offset > 0
                        THEN SatAddU8(position.x_offset, 1)
                        ELSE position.x_offset
        IN  goto = Goto(AsU16(Min(SatAdd(SatAdd(position.x, 1), adjusted), size.width)),
                        AsU16(Min(SatAdd(position.y, 1), size.height)))

\* C14 as claimed: the printed coordinates satisfy 1 <= px <= width and
\* 1 <= py <= height.
C14_InsideArea_Claimed ==
    goto.kind = "goto" =>
        /\ 1 <= goto.x /\ goto.x <= size.width
        /\ 1 <= goto.y /\ goto.y <= size.height

\* C14 amended: the printed coordinates satisfy px <= width and
\* py <= height; px >= 1 when width >= 1 and py >= 1 when height >= 1.
C14_InsideArea ==
    goto.kind = "goto" =>
        /\ goto.x <= size.width
        /\ goto.y <= size.height
        /\ size.width >= 1 => goto.x >= 1
        /\ size.height >= 1 => goto.y >= 1

\* C14 witness: the first cell of a terminal of 4 reported rows (2 kept),
\* and a position beyond the last column clamped to it.
C14_Witness ==
    /\ goto.kind = "goto"
    /\ size.height = 2 /\ size.width = 3
    /\ position.x = U16Max /\ position.y = 0
    /\ goto = Goto(3, 1)

\* C12: delete(x, y) and insert_newline(x, y) with y >= num_rows leave the
\* document as it was: same rows, same content.
C12_OutOfRangeNoOp ==
    (op.name \in {"delete", "insert_newline"} /\ op.y >= num_rows(prev)) => rows = prev

\* C12 witness: insert_newline with y = num_rows, which passes the guard
\* y > num_rows and finds no row, on a document of two rows with text.
C12_Witness ==
    /\ op.name = "insert_newline" /\ op.y = num_rows(prev)
    /\ num_rows(prev) = 2 /\ prev[1] /= <<>> /\ prev[2] /= <<>>
    /\ rows = prev

\* C15: insert_newline(x, y) with y < num_rows and x >= len(row y) - 1
\* (saturating) leaves every row's content as it was and adds one empty row
\* at index y + 1, the rows after y moving down by one.
C15_NewlineAtEnd ==
    (/\ op.name = "insert_newline"
     /\ op.y < num_rows(prev)
     /\ op.x >= SatSub(Len(prev[Y1]), 1)) =>
        /\ num_rows(rows) = num_rows(prev) + 1
        /\ rows[Y1 + 1] = <<>>
        /\ \A i \in 1..Y1 : rows[i] = prev[i]
        /\ \A i \in (Y1 + 1)..num_rows(prev) : rows[i + 1] = prev[i]

\* C15 witness: a newline on the last character of the first of two rows:
\* the row keeps both characters and the empty row comes between the two.
C15_Witness ==
    /\ op.name = "insert_newline" /\ op.y = 0 /\ op.x = 1
    /\ num_rows(prev) = 2 /\ Len(prev[1]) = 2 /\ prev[2] /= <<>>
    /\ rows = <<prev[1], <<>>, prev[2]>>

\* the index delete(x, y) deletes at within row y
DelIndex == SatSub(op.x, 1)

\* C16: delete(x, y) with y < num_rows and not (x = 0 and y > 0) removes
\* from row y the character at index max(x - 1, 0) when the row has one
\* there, and leaves the number of rows and every other row as they were.
C16_Backspace ==
    (/\ op.name = "delete"
     /\ op.y < num_rows(prev)
     /\ ~(op.x = 0 /\ op.y > 0)) =>
        /\ num_rows(rows) = num_rows(prev)
        /\ \A i \in 1..num_rows(prev) : i /= Y1 => rows[i] = prev[i]
        /\ DelIndex < Len(prev[Y1]) =>
            /\ Len(rows[Y1]) = Len(prev[Y1]) - 1
            /\ \A j \in 1..DelIndex : rows[Y1][j] = prev[Y1][j]
            /\ \A j \in (DelIndex + 1)..Len(rows[Y1]) : rows[Y1][j] = prev[Y1][j + 1]

\* C16 witness: delete(0, 0) removes the first character of row 0, which
\* differs from the second, and no row is joined.
C16_Witness ==
    /\ op.name = "delete" /\ op.x = 0 /\ op.y = 0
    /\ num_rows(prev) = 2
    /\ Len(prev[1]) = 2 /\ prev[1][1] /= prev[1][2]
    /\ rows = << <<prev[1][2]>>, prev[2] >>

\* C19 as claimed: delete_row(position) changes no row other than the one
\* at index position.y (the rows before it stay, the rows after it keep
\* their content), and with position.y >= num_rows the document is as it was.
C19_DeleteRowFrame_Claimed ==
    op.name = "delete_row" =>
        IF op.y >= num_rows(prev)
        THEN rows = prev
        ELSE \/ rows = prev
             \/ rows = [prev EXCEPT ![Y1] = <<>>]
             \/ rows = VecRemove(prev, op.y)

\* C20: on a document of zero rows (what open() builds from an empty file,
\* is_empty() being true) delete, insert_newline and delete_row leave zero
\* rows whatever the arguments, and insert gives the one row holding c.
C20_ZeroRows ==
    /\ is_empty(open_rows(<<>>))
    /\ (is_empty(prev) /\ op.name \in {"delete", "insert_newline", "delete_row"})
            => is_empty(rows)
    /\ (is_empty(prev) /\ op.name = "insert") => rows = << <<op.c>> >>

\* C20 witness: insert_newline(x, 0) on the document of zero rows, which
\* passes the guard y > num_rows, left it with zero rows.
C20_Witness ==
    /\ is_empty(prev) /\ op.name = "insert_newline" /\ op.y = 0 /\ op.x > 0
    /\ is_empty(rows)

\* the second of two edits in a row was this delete
ThenDelete(x, y) == first /= NoOp /\ op.name = "delete" /\ op.x = x /\ op.y = y

\* C17: insert_newline(x, y) with y < num_rows, then delete(0, y + 1), gives
\* back the document there was: same rows, same content.
C17_NewlineThenBackspace ==
    (/\ first.name = "insert_newline"
     /\ first.y < num_rows(before)
     /\ ThenDelete(0, first.y + 1)) => rows = before

\* C17 witness: a row of three characters split after its first, with a row
\* after it, and joined again.
C17_Witness ==
    /\ first.name = "insert_newline" /\ first.x = 1 /\ first.y = 0
    /\ num_rows(before) = 2 /\ Len(before[1]) = 3
    /\ ThenDelete(0, 1)
    /\ num_rows(prev) = 3 /\ Len(prev[2]) = 2
    /\ rows = before

\* C18: insert(c, x, y) with y < num_rows and x <= len(row y), then
\* delete(x + 1, y), gives back the document there was.
C18_TypeThenBackspace ==
    (/\ first.name = "insert"
     /\ first.y < num_rows(before)
     /\ first.x <= Len(before[first.y + 1])
     /\ ThenDelete(first.x + 1, first.y)) => rows = before

\* C18 witness: a character typed between two different characters of the
\* second row, and deleted.
C18_Witness ==
    /\ first.name = "insert" /\ first.x = 1 /\ first.y = 1
    /\ num_rows(before) = 2 /\ Len(before[2]) = 2 /\ before[2][1] /= before[2][2]
    /\ first.c = before[2][2]
    /\ ThenDelete(2, 1)
    /\ Len(prev[2]) = 3
    /\ rows = before

====
